---- MODULE Spec2Model ----
(***************************************************************************)
(* Model of the privileged admin-user lifecycle of the backoffice console: *)
(* the two edge functions create-backoffice-user and delete-backoffice-user *)
(* running against the hosted identity store (auth) and the table          *)
(* backoffice_users, plus the Users page handlers that reach the same      *)
(* table from the browser.                                                 *)
(*                                                                         *)
(* Every await of a handler is a scheduling point, so each store request   *)
(* is one action and requests of different calls interleave freely.        *)
(*                                                                         *)
(* Two more parts of the console share the module: the statistics loop of  *)
(* the Properties page (loadProperties) over the tables rooms, tenants and *)
(* payments, and the notification pipeline: notificationService, the       *)
(* NotificationProvider with its change-feed and auth subscriptions, and   *)
(* the insert of the backoffice notifications page. The entity             *)
(* repositories of services/supabase.ts (properties, rooms, tenants,       *)
(* payments, maintenance requests) are a fourth part. Each part has its    *)
(* own specification and leaves the variables of the others unchanged.     *)
(***************************************************************************)
EXTENDS Integers, Sequences, FiniteSets, TLC

(* ------------------------------ bounds -------------------------------- *)
\* number of requests in one behaviour: POSTs to the edge functions and
\* submissions of the Users page form
MaxCalls == 2

\* number of rows in the tables rooms, tenants and payments together
MaxRows == 3

\* number of requests sent to table notifications in one behaviour: calls of
\* loadNotifications and of the provider's mutations, inserts of the
\* backoffice page
MaxRequests == 3

\* number of calls of the entity repositories in one behaviour
MaxOps == 2

(* ------------------------- identifiers and enums ----------------------- *)
\* seeded identities: 1 = the platform superadmin, 2 = a second backoffice
\* user of any role and status, 3 = an application user without a
\* backoffice_users row
SeedIds == {1, 2, 3}
\* bearer credentials: 0 is a request without Authorization header, i > 0 is
\* the access token of seeded identity i (it resolves only while i exists),
\* -1 is a credential that never resolves
Tokens == {-1, 0} \cup SeedIds
\* e-mail addresses: seed i owns address i; requests name address 2 (taken
\* while seed 2 exists) or the unregistered address 4
NewEmails == {2, 4}

Roles == {"superadmin", "admin", "support"}
Statuses == {"active", "inactive"}

VARIABLES
    auth,       \* identity store: id -> email of every existing identity
    bo,         \* table backoffice_users: id -> [email, role, status]
    calls,      \* the edge-function requests received so far, in arrival order
    nextId,     \* next id the stores generate
    forms,      \* the submissions of the Users page form, in order
    rooms,      \* table rooms, in id order: [property_id, status]
    tenants,    \* table tenants, in id order: [property_id, status]
    payments,   \* table payments, in id order: [property_id, status, amount]
    load,       \* the Properties page's loadProperties call and its locals
    propertyStats,  \* the Properties page's state propertyStats
    notifications,  \* table notifications: the set of its rows
    clock,      \* the id and created_at the store gives the next notification
    session,    \* the user signed in at this client, 0 when signed out
    provider,   \* NotificationProvider: [mounted, selectedProperty, notifications]
                \* and its live subscriptions [channels, authSubscriptions]
    loads,      \* the loadNotifications calls in flight, in the order they started
    ops,        \* the provider's mutations in flight, in the order they started
    events,     \* number of change events on their way to the provider's channel
    sent,       \* number of requests sent to table notifications so far
    db,         \* the five entity tables: table name -> the set of its rows
    reply,      \* the last call of an entity repository and how it ended
    tick        \* the id and timestamp the store gives next

userVars == <<auth, bo, calls, nextId, forms>>
statVars == <<rooms, tenants, payments, load, propertyStats>>
notifVars == <<notifications, clock, session, provider, loads, ops, events, sent>>
repoVars == <<db, reply, tick>>
vars == <<userVars, statVars, repoVars, notifVars, repoVars>>

(* ------------------------------ messages ------------------------------- *)
MsgNoHeader == "No authorization header"
MsgUnauthorized == "Unauthorized"
MsgOnlySuperCreate == "Only active superadmin users can create backoffice users"
MsgOnlySuperDelete == "Only active superadmin users can delete backoffice users"
MsgStoreCreate == "createError.message"
MsgCreateProfile == "Failed to create backoffice user"
MsgCreated == "User created successfully"
MsgNotFound == "User not found"
MsgNoSuperDelete == "Cannot delete superadmin users"
MsgDeleteFailed == "Failed to delete user"
MsgDeleted == "User deleted successfully"
MsgBadBody == "req.json() error"

\* the error taxonomy of the lifecycle service, by message text
ErrorKind(msg) ==
    CASE msg \in {MsgNoHeader, MsgUnauthorized} -> "Unauthorized"
      [] msg \in {MsgOnlySuperCreate, MsgOnlySuperDelete, MsgNoSuperDelete} -> "Forbidden"
      [] msg = MsgNotFound -> "NotFound"
      [] msg \in {MsgStoreCreate, MsgCreateProfile} -> "CreateFailed"
      [] msg = MsgDeleteFailed -> "DeleteFailed"
      [] msg = MsgBadBody -> "ValidationFailed"
      [] OTHER -> "none"

(* ------------------------------ the stores ----------------------------- *)
\* A read answers from the store: getUser fails exactly for a credential that
\* resolves to no identity, .single() exactly for a missing row. A write may
\* be rejected by the store at any time.

\* auth.getUser(token): the identity the bearer credential resolves to, 0 if none
GetUser(token) == IF token \in DOMAIN auth THEN token ELSE 0

\* .from('backoffice_users').select(...).eq('id', id).single() finds a row
HasRow(id) == id \in DOMAIN bo

\* the identity store refuses a second identity for a registered address
EmailRegistered(e) == \E i \in DOMAIN auth : auth[i] = e

\* (variant: a table without the unique constraint)
EmailTakenNever(rows, e) == FALSE

\* backoffice_users.email is declared unique
EmailTaken(rows, e) == \E i \in DOMAIN rows : rows[i].email = e

\* deleting an identity removes the profile row that references it
CascadeProfile(rows, id) == [i \in DOMAIN rows \ {id} |-> rows[i]]

Remove(f, id) == [i \in DOMAIN f \ {id} |-> f[i]]

(* ------------------------------- requests ------------------------------ *)
NoCall ==
    [kind |-> "none", via |-> "http", token |-> 0, email |-> 0, role |-> "admin",
     status |-> "active", target |-> 0, badBody |-> FALSE,
     pc |-> "done", user |-> 0, newId |-> 0, targetRole |-> "none",
     ops |-> {}, failed |-> "none", resp |-> 0, msg |-> ""]

CallIds == DOMAIN calls

\* requests so far; a form that has been posted is counted as its call
Requests == Len(calls) + Cardinality({j \in DOMAIN forms : forms[j].pc # "posted"})

\* (variant: a catch block that forgets status: 400)
ThrowDefaultStatus(c, step, m) ==
    [c EXCEPT !.pc = "done", !.failed = step, !.resp = 200, !.msg = m]

\* the catch block: every thrown error becomes a 400 response with its message
Throw(c, step, m) ==
    [c EXCEPT !.pc = "done", !.failed = step, !.resp = 400, !.msg = m]

\* the success return of a handler
Respond(c, m) == [c EXCEPT !.pc = "done", !.resp = 200, !.msg = m]

Did(c, op) == [c EXCEPT !.ops = @ \cup {op}]

\* the user of this client, and another user; 0 stands for null
Caller == 1
OtherUser == 2
TargetUsers == {0, Caller, OtherUser}
TargetProperties == {0, 1}

Notification(id, user, property, status) ==
    [id |-> id, target_user_id |-> user, target_property_id |-> property,
     status |-> status, created_at |-> id]

\* the rows the table holds when the client starts: one for the caller, one
\* for another user, both unread, and a broadcast that has been read
SeedNotifications ==
    { Notification(1, Caller, 1, "unread"),
      Notification(2, OtherUser, 0, "unread"),
      Notification(3, 0, 0, "read") }

\* loadProperties before it is called
\* the entity tables of services/supabase.ts
Tables == {"properties", "rooms", "tenants", "payments", "maintenance_requests"}
\* the tables with a getByPropertyId
PerProperty == Tables \ {"properties"}

\* A row of an entity table. ref is the owner of a property, the room of a
\* tenant, the tenant of a payment (0: none); number is the room number, a
\* one-character string, which orders as its digit; v stands for the plain
\* columns; the store stamps created_at and updated_at.
Row(id, property_id, ref, number) ==
    [id |-> id, property_id |-> property_id, ref |-> ref, number |-> number,
     v |-> 0, created_at |-> id, updated_at |-> id]

SeedDb ==
    [t \in Tables |->
        CASE t = "properties" -> {Row(1, 0, 1, 0), Row(2, 0, 1, 0)}
          [] t = "rooms" -> {Row(3, 1, 0, 1), Row(4, 1, 0, 2), Row(5, 2, 0, 1)}
          [] t = "tenants" -> {Row(6, 1, 3, 0), Row(7, 1, 0, 0)}
          [] t = "payments" -> {Row(8, 1, 6, 0), Row(9, 2, 0, 0)}
          [] t = "maintenance_requests" -> {Row(10, 1, 0, 0), Row(11, 2, 0, 0)}]

FirstId == 12

\* no repository has been called
NoReply == [op |-> "none", table |-> "none", arg |-> 0, requests |-> 0,
            error |-> "none", thrown |-> "none", data |-> <<>>]

NoLoad == [pc |-> "idle", k |-> 0, totalRooms |-> 0, occupiedRooms |-> 0,
           occupancyRate |-> [num |-> 0, den |-> 1], tenantsCount |-> 0,
           totalRevenue |-> 0, stats |-> <<>>,
           error |-> FALSE,    \* the page's state error is not null
           failed |-> {}]      \* history: the properties a read of which failed

Init ==
    /\ auth = (1 :> 1) @@ (2 :> 2) @@ (3 :> 3)
    /\ \E r \in Roles, s \in Statuses :
          bo = (1 :> [email |-> 1, role |-> "superadmin", status |-> "active"])
               @@ (2 :> [email |-> 2, role |-> r, status |-> s])
    /\ calls = <<>>
    /\ nextId = 4
    /\ forms = <<>>
    /\ rooms = <<>> /\ tenants = <<>> /\ payments = <<>>
    /\ load = NoLoad
    /\ propertyStats = <<>>
    /\ notifications = SeedNotifications
    /\ clock = Cardinality(SeedNotifications) + 1
    /\ session = Caller
    /\ provider = [mounted |-> FALSE, selectedProperty |-> 0, notifications |-> <<>>,
                   channels |-> <<>>, authSubscriptions |-> 0]
    /\ loads = <<>> /\ ops = <<>> /\ events = 0
    /\ sent = 0
    /\ db = SeedDb
    /\ reply = NoReply
    /\ tick = FirstId

(* ---------------- create-backoffice-user: Deno.serve handler ----------- *)
\* a POST arrives at create-backoffice-user
StartCreate ==
    /\ UNCHANGED <<statVars, notifVars, repoVars>>
    /\ Requests < MaxCalls
    /\ calls' = Append(calls, [NoCall EXCEPT !.kind = "create", !.pc = "getUser"])
    /\ UNCHANGED <<auth, bo, nextId, forms>>

\* the Authorization header of a request: a page sends its session's token
Headers(c) == IF c.via = "form" THEN {c.token} ELSE Tokens

\* The JSON body of a create request. A request from the Users page carries
\* the address the page checked; any other POST carries whatever its sender
\* wrote. A field of the body enters the state where the handler first uses
\* it: the parse result at req.json(), email at createUser, role and status
\* at the insert.
BodyParses(c) == IF c.via = "form" THEN {TRUE} ELSE BOOLEAN
BodyEmails(c) == IF c.via = "form" THEN {c.email} ELSE NewEmails
BodyRoles(c) == Roles
BodyStatuses(c) == Statuses

\* (variant: only the header is checked, not what getUser returns)
AuthenticateHeaderOnly(c0, t) ==
    LET c == [c0 EXCEPT !.token = t] IN
    IF c.token = 0 THEN Throw(c, "header", MsgNoHeader)
    ELSE [Did(c, "getUser") EXCEPT !.user = GetUser(c.token), !.pc = "selectCaller"]

\* lines 26-37 of both handlers: header check, then auth.getUser(token)
Authenticate(c0, t) ==
    LET c == [c0 EXCEPT !.token = t] IN
    IF c.token = 0 THEN Throw(c, "header", MsgNoHeader)
    ELSE IF GetUser(c.token) = 0
         THEN Throw(Did(c, "getUser"), "getUser", MsgUnauthorized)
         ELSE [Did(c, "getUser") EXCEPT !.user = GetUser(c.token), !.pc = "selectCaller"]

\* (variant: any active backoffice user passes)
IsActiveAnyRole(id) ==
    /\ HasRow(id)
    /\ bo[id].status = "active"

\* lines 39-48 of both handlers: the caller must be an active superadmin
IsActiveSuperadmin(id) ==
    /\ HasRow(id)
    /\ bo[id].role = "superadmin"
    /\ bo[id].status = "active"

\* (variant: the status of the caller is not compared)
AuthorizeRoleOnly(c, m) ==
    IF HasRow(c.user) /\ bo[c.user].role = "superadmin"
    THEN [Did(c, "selectCaller") EXCEPT !.pc = "readBody"]
    ELSE Throw(Did(c, "selectCaller"), "selectCaller", m)

Authorize(c, m) ==
    IF IsActiveSuperadmin(c.user)
    THEN [Did(c, "selectCaller") EXCEPT !.pc = "readBody"]
    ELSE Throw(Did(c, "selectCaller"), "selectCaller", m)

CreateGetUser(i) ==
    /\ UNCHANGED <<statVars, notifVars, repoVars>>
    /\ calls[i].kind = "create" /\ calls[i].pc = "getUser"
    /\ \E t \in Headers(calls[i]) : calls' = [calls EXCEPT ![i] = Authenticate(@, t)]
    /\ UNCHANGED <<auth, bo, nextId, forms>>

CreateSelectCaller(i) ==
    /\ UNCHANGED <<statVars, notifVars, repoVars>>
    /\ calls[i].kind = "create" /\ calls[i].pc = "selectCaller"
    /\ calls' = [calls EXCEPT ![i] = Authorize(@, MsgOnlySuperCreate)]
    /\ UNCHANGED <<auth, bo, nextId, forms>>

\* const { email, password, name, role, status } = await req.json()
CreateReadBody(i) ==
    /\ UNCHANGED <<statVars, notifVars, repoVars>>
    /\ calls[i].kind = "create" /\ calls[i].pc = "readBody"
    /\ \E ok \in BodyParses(calls[i]) :
          calls' = [calls EXCEPT ![i] =
                      IF ~ok
                      THEN Throw([Did(@, "readBody") EXCEPT !.badBody = TRUE],
                                 "readBody", MsgBadBody)
                      ELSE [Did(@, "readBody") EXCEPT !.pc = "createUser"]]
    /\ UNCHANGED <<auth, bo, nextId, forms>>

\* (variant: createError is not thrown, the handler goes on to the insert)
CreateAuthUserNoThrow(i) ==
    /\ UNCHANGED <<statVars, notifVars, repoVars>>
    /\ calls[i].kind = "create" /\ calls[i].pc = "createUser"
    /\ \E e \in BodyEmails(calls[i]) :
       \/ /\ calls' = [calls EXCEPT ![i] =
                          [Did(@, "createUser") EXCEPT !.email = e, !.pc = "insert"]]
          /\ UNCHANGED <<auth, bo, nextId, forms>>
       \/ /\ ~EmailRegistered(e)
          /\ auth' = auth @@ (nextId :> e)
          /\ nextId' = nextId + 1
          /\ calls' = [calls EXCEPT ![i] =
                          [Did(@, "createUser") EXCEPT !.email = e, !.newId = nextId,
                                                       !.pc = "insert"]]
          /\ UNCHANGED <<bo, forms>>

\* auth.admin.createUser({email, password, email_confirm: true})
CreateAuthUser(i) ==
    /\ UNCHANGED <<statVars, notifVars, repoVars>>
    /\ calls[i].kind = "create" /\ calls[i].pc = "createUser"
    /\ \E e \in BodyEmails(calls[i]) :
       \/ \* the identity store rejects: address registered, weak password, outage
          /\ calls' = [calls EXCEPT ![i] =
                          Throw([Did(@, "createUser") EXCEPT !.email = e],
                                "createUser", MsgStoreCreate)]
          /\ UNCHANGED <<auth, bo, nextId, forms>>
       \/ /\ ~EmailRegistered(e)
          /\ auth' = auth @@ (nextId :> e)
          /\ nextId' = nextId + 1
          /\ calls' = [calls EXCEPT ![i] =
                          [Did(@, "createUser") EXCEPT !.email = e, !.newId = nextId,
                                                       !.pc = "insert"]]
          /\ UNCHANGED <<bo, forms>>

\* the row the handler inserts for the identity it created
ProfileRow(c, r, s) == [email |-> c.email, role |-> r, status |-> s]

\* .from('backoffice_users').insert([{id: authData.user.id, email, name, role, status}])
CreateInsertProfile(i) ==
    /\ UNCHANGED <<statVars, notifVars, repoVars>>
    /\ calls[i].kind = "create" /\ calls[i].pc = "insert"
    /\ \/ \* userError: constraint violation or outage
          /\ calls' = [calls EXCEPT ![i] =
                          [Did(@, "insert") EXCEPT !.failed = "insert", !.pc = "cleanup"]]
          /\ UNCHANGED <<auth, bo, nextId, forms>>
       \/ /\ ~HasRow(calls[i].newId)
          /\ ~EmailTaken(bo, calls[i].email)
          /\ \E r \in BodyRoles(calls[i]), s \in BodyStatuses(calls[i]) :
                /\ bo' = bo @@ (calls[i].newId :> ProfileRow(calls[i], r, s))
                /\ calls' = [calls EXCEPT ![i] =
                                Respond([Did(@, "insert") EXCEPT !.role = r, !.status = s],
                                        MsgCreated)]
          /\ UNCHANGED <<auth, nextId, forms>>

\* the result of the compensating auth.admin.deleteUser(authData.user.id):
\* the handler awaits the call and does not look at what it returns
CleanupOutcomes == {"deleted", "error"}

\* if (userError) { await auth.admin.deleteUser(authData.user.id); throw ... }
CreateCleanup(i) ==
    /\ UNCHANGED <<statVars, notifVars, repoVars>>
    /\ calls[i].kind = "create" /\ calls[i].pc = "cleanup"
    /\ \E out \in CleanupOutcomes :
          IF out = "deleted" /\ calls[i].newId \in DOMAIN auth
          THEN /\ auth' = Remove(auth, calls[i].newId)
               /\ bo' = CascadeProfile(bo, calls[i].newId)
          ELSE UNCHANGED <<auth, bo>>
    /\ calls' = [calls EXCEPT ![i] =
                    Throw(Did(@, "deleteUser"), "insert", MsgCreateProfile)]
    /\ UNCHANGED <<nextId, forms>>

(* ---------------- delete-backoffice-user: Deno.serve handler ----------- *)
\* a POST arrives at delete-backoffice-user
StartDelete ==
    /\ UNCHANGED <<statVars, notifVars, repoVars>>
    /\ Requests < MaxCalls
    /\ calls' = Append(calls, [NoCall EXCEPT !.kind = "delete", !.pc = "getUser"])
    /\ UNCHANGED <<auth, bo, nextId, forms>>

\* the JSON bodies a delete request can carry: no JSON at all (0), or {id} for
\* an id the stores have generated or will generate next
DeleteBodies == 0..nextId

DeleteGetUser(i) ==
    /\ UNCHANGED <<statVars, notifVars, repoVars>>
    /\ calls[i].kind = "delete" /\ calls[i].pc = "getUser"
    /\ \E t \in Headers(calls[i]) : calls' = [calls EXCEPT ![i] = Authenticate(@, t)]
    /\ UNCHANGED <<auth, bo, nextId, forms>>

DeleteSelectCaller(i) ==
    /\ UNCHANGED <<statVars, notifVars, repoVars>>
    /\ calls[i].kind = "delete" /\ calls[i].pc = "selectCaller"
    /\ calls' = [calls EXCEPT ![i] = Authorize(@, MsgOnlySuperDelete)]
    /\ UNCHANGED <<auth, bo, nextId, forms>>

\* const { id } = await req.json()
DeleteReadBody(i) ==
    /\ UNCHANGED <<statVars, notifVars, repoVars>>
    /\ calls[i].kind = "delete" /\ calls[i].pc = "readBody"
    /\ \E id \in DeleteBodies :
          calls' = [calls EXCEPT ![i] =
                      IF id = 0
                      THEN Throw([Did(@, "readBody") EXCEPT !.badBody = TRUE],
                                 "readBody", MsgBadBody)
                      ELSE [Did(@, "readBody") EXCEPT !.target = id,
                                                      !.pc = "selectTarget"]]
    /\ UNCHANGED <<auth, bo, nextId, forms>>

\* (variant: the role of the target is not compared)
CheckTargetNoRoleCheck(c) ==
    IF ~HasRow(c.target)
    THEN Throw(Did(c, "selectTarget"), "selectTarget", MsgNotFound)
    ELSE [Did(c, "selectTarget") EXCEPT !.targetRole = bo[c.target].role,
                                        !.pc = "deleteUser"]

\* (variant: the role is compared with the wrong constant)
CheckTargetWrongRole(c) ==
    IF ~HasRow(c.target)
    THEN Throw(Did(c, "selectTarget"), "selectTarget", MsgNotFound)
    ELSE IF bo[c.target].role = "admin"
         THEN Throw([Did(c, "selectTarget") EXCEPT !.targetRole = "admin"],
                    "roleCheck", MsgNoSuperDelete)
         ELSE [Did(c, "selectTarget") EXCEPT !.targetRole = bo[c.target].role,
                                             !.pc = "deleteUser"]

\* (variant: a missing target row is not an error)
CheckTargetNoRowCheck(c) ==
    IF HasRow(c.target) /\ bo[c.target].role = "superadmin"
    THEN Throw([Did(c, "selectTarget") EXCEPT !.targetRole = "superadmin"],
               "roleCheck", MsgNoSuperDelete)
    ELSE [Did(c, "selectTarget") EXCEPT
             !.targetRole = IF HasRow(c.target) THEN bo[c.target].role ELSE "none",
             !.pc = "deleteUser"]

\* lines 52-65: the target must exist and must not be a superadmin
CheckTarget(c) ==
    IF ~HasRow(c.target)
    THEN Throw(Did(c, "selectTarget"), "selectTarget", MsgNotFound)
    ELSE IF bo[c.target].role = "superadmin"
         THEN Throw([Did(c, "selectTarget") EXCEPT !.targetRole = "superadmin"],
                    "roleCheck", MsgNoSuperDelete)
         ELSE [Did(c, "selectTarget") EXCEPT !.targetRole = bo[c.target].role,
                                             !.pc = "deleteUser"]

DeleteSelectTarget(i) ==
    /\ UNCHANGED <<statVars, notifVars, repoVars>>
    /\ calls[i].kind = "delete" /\ calls[i].pc = "selectTarget"
    /\ calls' = [calls EXCEPT ![i] = CheckTarget(@)]
    /\ UNCHANGED <<auth, bo, nextId, forms>>

\* (variant: deleting an identity that is not there counts as done)
DeleteAuthUserIdempotent(i) ==
    /\ UNCHANGED <<statVars, notifVars, repoVars>>
    /\ calls[i].kind = "delete" /\ calls[i].pc = "deleteUser"
    /\ \/ /\ calls' = [calls EXCEPT ![i] =
                          Throw(Did(@, "deleteUser"), "deleteUser", MsgDeleteFailed)]
          /\ UNCHANGED <<auth, bo, nextId, forms>>
       \/ /\ auth' = Remove(auth, calls[i].target)
          /\ bo' = CascadeProfile(bo, calls[i].target)
          /\ calls' = [calls EXCEPT ![i] = Respond(Did(@, "deleteUser"), MsgDeleted)]
          /\ UNCHANGED <<nextId, forms>>

\* (variant: the handler removes the profile row itself, whatever deleteUser says)
DeleteAuthUserAndRow(i) ==
    /\ UNCHANGED <<statVars, notifVars, repoVars>>
    /\ calls[i].kind = "delete" /\ calls[i].pc = "deleteUser"
    /\ bo' = CascadeProfile(bo, calls[i].target)
    /\ \/ /\ calls' = [calls EXCEPT ![i] =
                          Throw(Did(@, "deleteUser"), "deleteUser", MsgDeleteFailed)]
          /\ UNCHANGED <<auth, nextId, forms>>
       \/ /\ calls[i].target \in DOMAIN auth
          /\ auth' = Remove(auth, calls[i].target)
          /\ calls' = [calls EXCEPT ![i] = Respond(Did(@, "deleteUser"), MsgDeleted)]
          /\ UNCHANGED <<nextId, forms>>

\* lines 67-77: auth.admin.deleteUser(id)
DeleteAuthUser(i) ==
    /\ UNCHANGED <<statVars, notifVars, repoVars>>
    /\ calls[i].kind = "delete" /\ calls[i].pc = "deleteUser"
    /\ \/ \* deleteError: no such identity, or outage
          /\ calls' = [calls EXCEPT ![i] =
                          Throw(Did(@, "deleteUser"), "deleteUser", MsgDeleteFailed)]
          /\ UNCHANGED <<auth, bo, nextId, forms>>
       \/ /\ calls[i].target \in DOMAIN auth
          /\ auth' = Remove(auth, calls[i].target)
          /\ bo' = CascadeProfile(bo, calls[i].target)
          /\ calls' = [calls EXCEPT ![i] = Respond(Did(@, "deleteUser"), MsgDeleted)]
          /\ UNCHANGED <<nextId, forms>>

(* ------------------------- Users page (browser) ------------------------ *)
\* A page handler that ends in its catch block, or returns after setError,
\* leaves nothing but the error banner: NoForm with its kind.
NoForm == [kind |-> "none", token |-> 0, email |-> 0, pc |-> "error"]

\* the signed-in sessions of the console: seeded identities that still exist
Sessions == SeedIds \cap DOMAIN auth

\* handleFormSubmit of the page that calls the edge function: the privilege
\* check and the existing-email check (.eq('email', formData.email).maybeSingle())
FormCheckEmail ==
    /\ UNCHANGED <<statVars, notifVars, repoVars>>
    /\ Requests < MaxCalls
    /\ \E u \in Sessions, e \in NewEmails :
          forms' = Append(forms,
                     IF IsActiveSuperadmin(u) /\ ~EmailTaken(bo, e)
                     THEN [NoForm EXCEPT !.kind = "v2", !.token = u, !.email = e,
                                         !.pc = "checked"]
                     ELSE [NoForm EXCEPT !.kind = "v2"])
    /\ UNCHANGED <<auth, bo, calls, nextId>>

\* fetch(.../functions/v1/create-backoffice-user) with the session's token
FormPost(j) ==
    /\ UNCHANGED <<statVars, notifVars, repoVars>>
    /\ forms[j].kind = "v2" /\ forms[j].pc = "checked"
    /\ calls' = Append(calls,
                  [NoCall EXCEPT !.kind = "create", !.via = "form",
                                 !.token = forms[j].token, !.email = forms[j].email,
                                 !.pc = "getUser"])
    /\ forms' = [forms EXCEPT ![j].pc = "posted"]
    /\ UNCHANGED <<auth, bo, nextId>>

\* handleFormSubmit of the page that writes the table itself: the privilege
\* check, then .from('backoffice_users').insert([{email, name, role, status}])
DirectInsert ==
    /\ UNCHANGED <<statVars, notifVars, repoVars>>
    /\ Requests < MaxCalls
    /\ \/ \* not an active superadmin, or createError
          /\ forms' = Append(forms, [NoForm EXCEPT !.kind = "v1"])
          /\ UNCHANGED <<auth, bo, calls, nextId>>
       \/ \E u \in Sessions, e \in NewEmails, r \in Roles, s \in Statuses :
             /\ IsActiveSuperadmin(u)
             /\ ~EmailTaken(bo, e)
             /\ bo' = bo @@ (nextId :> [email |-> e, role |-> r, status |-> s])
             /\ nextId' = nextId + 1
             /\ forms' = Append(forms, [NoForm EXCEPT !.kind = "v1", !.token = u,
                                                      !.email = e, !.pc = "inserted"])
             /\ UNCHANGED <<auth, calls>>

(* ---------------------------- specification ---------------------------- *)
Next ==
    \/ StartCreate
    \/ StartDelete
    \/ \E i \in CallIds : CreateGetUser(i)
    \/ \E i \in CallIds : CreateSelectCaller(i)
    \/ \E i \in CallIds : CreateReadBody(i)
    \/ \E i \in CallIds : CreateAuthUser(i)
    \/ \E i \in CallIds : CreateInsertProfile(i)
    \/ \E i \in CallIds : CreateCleanup(i)
    \/ \E i \in CallIds : DeleteGetUser(i)
    \/ \E i \in CallIds : DeleteSelectCaller(i)
    \/ \E i \in CallIds : DeleteReadBody(i)
    \/ \E i \in CallIds : DeleteSelectTarget(i)
    \/ \E i \in CallIds : DeleteAuthUser(i)

Spec == Init /\ [][Next]_vars

\* the lifecycle service together with the Users page
NextPage ==
    \/ Next
    \/ FormCheckEmail
    \/ \E j \in DOMAIN forms : FormPost(j)
    \/ DirectInsert

SpecPage == Init /\ [][NextPage]_vars

\* The Users page also changes role and status of existing rows.

\* handleFormSubmit with an editingUser, up to its privilege check
EditCheck ==
    /\ UNCHANGED <<statVars, notifVars, repoVars>>
    /\ Requests < MaxCalls
    /\ \E u \in Sessions :
          forms' = Append(forms,
                     IF IsActiveSuperadmin(u)
                     THEN [NoForm EXCEPT !.kind = "edit", !.token = u, !.pc = "checked"]
                     ELSE [NoForm EXCEPT !.kind = "edit"])
    /\ UNCHANGED <<auth, bo, calls, nextId>>

\* update({ name, role, status, updated_at }).eq('id', editingUser.id): the
\* row of the list that is being edited may be gone by now, which is no error
EditUpdate(j) ==
    /\ UNCHANGED <<statVars, notifVars, repoVars>>
    /\ forms[j].kind = "edit" /\ forms[j].pc = "checked"
    /\ \/ \* updateError
          /\ forms' = [forms EXCEPT ![j].pc = "error"]
          /\ UNCHANGED bo
       \/ \E id \in 1..(nextId - 1), r \in Roles, s \in Statuses :
             /\ bo' = IF HasRow(id)
                      THEN [bo EXCEPT ![id].role = r, ![id].status = s] ELSE bo
             /\ forms' = [forms EXCEPT ![j].pc = "updated"]
    /\ UNCHANGED <<auth, calls, nextId>>

\* handleUpdateStatus up to its privilege check: select('role, status')
\* .single() has no filter, so besides the caller's role and status it
\* depends on the rows the policies of the table show, which may make it fail
StatusCheck ==
    /\ UNCHANGED <<statVars, notifVars, repoVars>>
    /\ Requests < MaxCalls
    /\ \E u \in Sessions :
          \/ forms' = Append(forms, [NoForm EXCEPT !.kind = "status"])
          \/ /\ IsActiveSuperadmin(u)
             /\ forms' = Append(forms, [NoForm EXCEPT !.kind = "status", !.token = u,
                                                      !.pc = "checked"])
    /\ UNCHANGED <<auth, bo, calls, nextId>>

\* update({ status: newStatus }).eq('id', user.id)
StatusUpdate(j) ==
    /\ UNCHANGED <<statVars, notifVars, repoVars>>
    /\ forms[j].kind = "status" /\ forms[j].pc = "checked"
    /\ \/ \* updateError
          /\ forms' = [forms EXCEPT ![j].pc = "error"]
          /\ UNCHANGED bo
       \/ \E id \in 1..(nextId - 1), s \in Statuses :
             /\ bo' = IF HasRow(id) THEN [bo EXCEPT ![id].status = s] ELSE bo
             /\ forms' = [forms EXCEPT ![j].pc = "updated"]
    /\ UNCHANGED <<auth, calls, nextId>>

\* the lifecycle service together with the role and status updates of the page
NextRoles ==
    \/ Next
    \/ EditCheck
    \/ \E j \in DOMAIN forms : EditUpdate(j)
    \/ StatusCheck
    \/ \E j \in DOMAIN forms : StatusUpdate(j)

SpecRoles == Init /\ [][NextRoles]_vars

(* ------------------- Properties page: loadProperties ------------------- *)
\* the rows of table properties as the first read returns them
Properties == <<2, 1>>

RoomStatuses == {"occupied", "vacant", "maintenance"}
TenantStatuses == {"active", "inactive"}
PaymentStatuses == {"paid", "pending", "overdue"}
Amounts == {300, 500, 750}

Rows == Len(rooms) + Len(tenants) + Len(payments)

PropertyIds == {Properties[k] : k \in DOMAIN Properties}

\* payments.reduce((sum, payment) => sum + Number(payment.amount), 0);
\* amount is a number, which Number() returns as it is
RECURSIVE Reduce(_, _)
Reduce(rows, sum) ==
    IF rows = <<>> THEN sum ELSE Reduce(Tail(rows), sum + Head(rows).amount)

\* (variant: no test of totalRooms before the division)
OccupancyRateUnguarded(occupiedRooms, totalRooms) ==
    [num |-> occupiedRooms * 100, den |-> totalRooms]

\* totalRooms > 0 ? (occupiedRooms / totalRooms) * 100 : 0, as the fraction
\* num/den; a den of 0 stands for the NaN of 0/0
OccupancyRate(occupiedRooms, totalRooms) ==
    IF totalRooms > 0
    THEN [num |-> occupiedRooms * 100, den |-> totalRooms]
    ELSE [num |-> 0, den |-> 1]

\* other sessions write to the three tables
InsertRoom ==
    /\ Rows < MaxRows
    /\ \E p \in PropertyIds, s \in RoomStatuses :
          rooms' = Append(rooms, [property_id |-> p, status |-> s])
    /\ UNCHANGED <<userVars, notifVars, repoVars, tenants, payments, load, propertyStats>>

InsertTenant ==
    /\ Rows < MaxRows
    /\ \E p \in PropertyIds, s \in TenantStatuses :
          tenants' = Append(tenants, [property_id |-> p, status |-> s])
    /\ UNCHANGED <<userVars, notifVars, repoVars, rooms, payments, load, propertyStats>>

InsertPayment ==
    /\ Rows < MaxRows
    /\ \E p \in PropertyIds, s \in PaymentStatuses, a \in Amounts :
          payments' = Append(payments, [property_id |-> p, status |-> s, amount |-> a])
    /\ UNCHANGED <<userVars, notifVars, repoVars, rooms, tenants, load, propertyStats>>

\* the page mounts: useEffect calls loadProperties
LoadProperties ==
    /\ load.pc = "idle"
    /\ load' = [NoLoad EXCEPT !.pc = "properties"]
    /\ UNCHANGED <<userVars, notifVars, repoVars, rooms, tenants, payments, propertyStats>>

\* the read of properties answers; the loop starts, or ends at once
LoadSelectProperties ==
    /\ load.pc = "properties"
    /\ load' = [load EXCEPT !.pc = "rooms", !.k = 1]
    /\ UNCHANGED <<userVars, notifVars, repoVars, rooms, tenants, payments, propertyStats>>

\* the property the loop is at
Property == Properties[load.k]

LoadSelectRooms ==
    /\ load.pc = "rooms"
    /\ LET data == SelectSeq(rooms, LAMBDA r : r.property_id = Property)
           totalRooms == Len(data)
           occupiedRooms == Len(SelectSeq(data, LAMBDA r : r.status = "occupied"))
       IN  load' = [load EXCEPT !.pc = "tenants",
                                !.totalRooms = totalRooms,
                                !.occupiedRooms = occupiedRooms,
                                !.occupancyRate = OccupancyRate(occupiedRooms, totalRooms)]
    /\ UNCHANGED <<userVars, notifVars, repoVars, rooms, tenants, payments, propertyStats>>

\* select('*', { count: 'exact', head: true }) of the active tenants
LoadCountTenants ==
    /\ load.pc = "tenants"
    /\ LET count == Len(SelectSeq(tenants, LAMBDA t :
                         t.property_id = Property /\ t.status = "active"))
       IN  load' = [load EXCEPT !.pc = "paid", !.tenantsCount = count]
    /\ UNCHANGED <<userVars, notifVars, repoVars, rooms, tenants, payments, propertyStats>>

\* (variant: the read of the paid payments without .eq('property_id', ...))
LoadSelectPaidEveryProperty ==
    /\ load.pc = "paid"
    /\ LET data == SelectSeq(payments, LAMBDA p : p.status = "paid")
       IN  load' = [load EXCEPT !.pc = "pending", !.totalRevenue = Reduce(data, 0)]
    /\ UNCHANGED <<userVars, notifVars, repoVars, rooms, tenants, payments, propertyStats>>

LoadSelectPaid ==
    /\ load.pc = "paid"
    /\ LET data == SelectSeq(payments, LAMBDA p :
                        p.property_id = Property /\ p.status = "paid")
       IN  load' = [load EXCEPT !.pc = "pending", !.totalRevenue = Reduce(data, 0)]
    /\ UNCHANGED <<userVars, notifVars, repoVars, rooms, tenants, payments, propertyStats>>

\* the last read of a round: stats[property.id] is written, and after the
\* last property setPropertyStats(stats) replaces the page's state
LoadSelectPending ==
    /\ load.pc = "pending"
    /\ LET data == SelectSeq(payments, LAMBDA p :
                        p.property_id = Property /\ p.status \in {"pending", "overdue"})
           entry == [total_revenue |-> load.totalRevenue,
                     total_tenants |-> load.tenantsCount,
                     total_rooms |-> load.totalRooms,
                     occupied_rooms |-> load.occupiedRooms,
                     occupancy_rate |-> load.occupancyRate,
                     pending_payments |-> Reduce(data, 0)]
           stats == (Property :> entry) @@ load.stats
       IN  IF load.k < Len(Properties)
           THEN /\ load' = [load EXCEPT !.pc = "rooms", !.k = @ + 1, !.stats = stats]
                /\ UNCHANGED propertyStats
           ELSE /\ load' = [load EXCEPT !.pc = "done", !.stats = stats]
                /\ propertyStats' = stats
    /\ UNCHANGED <<userVars, notifVars, repoVars, rooms, tenants, payments>>

NextStats ==
    \/ InsertRoom
    \/ InsertTenant
    \/ InsertPayment
    \/ LoadProperties
    \/ LoadSelectProperties
    \/ LoadSelectRooms
    \/ LoadCountTenants
    \/ LoadSelectPaid
    \/ LoadSelectPending

\* The reads of the page may fail. A failed request of supabase-js does not
\* throw: it answers { data: null, count: null, error }.

\* if (propertiesError) throw propertiesError; the catch sets the page's error
LoadSelectPropertiesFails ==
    /\ load.pc = "properties"
    /\ load' = [load EXCEPT !.pc = "done", !.error = TRUE]
    /\ UNCHANGED <<userVars, notifVars, repoVars, rooms, tenants, payments, propertyStats>>

\* const { data: rooms } = ...: the error is not read; rooms?.length || 0
LoadSelectRoomsFails ==
    /\ load.pc = "rooms"
    /\ load' = [load EXCEPT !.pc = "tenants",
                            !.totalRooms = 0,
                            !.occupiedRooms = 0,
                            !.occupancyRate = OccupancyRate(0, 0),
                            !.failed = @ \cup {Property}]
    /\ UNCHANGED <<userVars, notifVars, repoVars, rooms, tenants, payments, propertyStats>>

\* const { count: tenantsCount } = ...; tenantsCount || 0 at the write
LoadCountTenantsFails ==
    /\ load.pc = "tenants"
    /\ load' = [load EXCEPT !.pc = "paid", !.tenantsCount = 0,
                            !.failed = @ \cup {Property}]
    /\ UNCHANGED <<userVars, notifVars, repoVars, rooms, tenants, payments, propertyStats>>

\* const { data: payments } = ...; payments?.reduce(...) || 0
LoadSelectPaidFails ==
    /\ load.pc = "paid"
    /\ load' = [load EXCEPT !.pc = "pending", !.totalRevenue = 0,
                            !.failed = @ \cup {Property}]
    /\ UNCHANGED <<userVars, notifVars, repoVars, rooms, tenants, payments, propertyStats>>

\* const { data: pendingPayments } = ...; pendingPayments?.reduce(...) || 0
LoadSelectPendingFails ==
    /\ load.pc = "pending"
    /\ LET entry == [total_revenue |-> load.totalRevenue,
                     total_tenants |-> load.tenantsCount,
                     total_rooms |-> load.totalRooms,
                     occupied_rooms |-> load.occupiedRooms,
                     occupancy_rate |-> load.occupancyRate,
                     pending_payments |-> 0]
           stats == (Property :> entry) @@ load.stats
           failed == load.failed \cup {Property}
       IN  IF load.k < Len(Properties)
           THEN /\ load' = [load EXCEPT !.pc = "rooms", !.k = @ + 1,
                                        !.stats = stats, !.failed = failed]
                /\ UNCHANGED propertyStats
           ELSE /\ load' = [load EXCEPT !.pc = "done",
                                        !.stats = stats, !.failed = failed]
                /\ propertyStats' = stats
    /\ UNCHANGED <<userVars, notifVars, repoVars, rooms, tenants, payments>>

NextStatsFailing ==
    \/ NextStats
    \/ LoadSelectPropertiesFails
    \/ LoadSelectRoomsFails
    \/ LoadCountTenantsFails
    \/ LoadSelectPaidFails
    \/ LoadSelectPendingFails

InitStats == Init /\ bo[2].role = "admin" /\ bo[2].status = "active"

SpecStats == InitStats /\ [][NextStats]_vars

\* the page with reads that may fail
SpecStatsFailing == InitStats /\ [][NextStatsFailing]_vars

(* ------------- entity repositories (services/supabase.ts) --------------- *)
\* The five services have the same four methods; table names the service.
\* Every method awaits one request of the table and then
\*     if (error) throw error; return data
\* so a call is one action. A request may be rejected by the store at any
\* time ("FetchError": it did not get through), or for what it asks.

\* the foreign keys of the tables
PropertyExists(id) == \E r \in db["properties"] : r.id = id

Referenced(table, id) ==
    CASE table = "properties" ->
             \E t \in PerProperty : \E r \in db[t] : r.property_id = id
      [] table = "rooms" -> \E r \in db["tenants"] : r.ref = id
      [] table = "tenants" -> \E r \in db["payments"] : r.ref = id
      [] OTHER -> FALSE

\* the answers a request may get: the rejection it asks for, if any, or a
\* failed fetch
Errors(rejection) == {rejection, "FetchError"}

\* the sequences that hold every element of S once
Orderings(S) ==
    {s \in [1..Cardinality(S) -> S] :
        \A i, j \in 1..Cardinality(S) : i # j => s[i] # s[j]}

\* .order(column, { ascending }): rows with equal keys come in any order
OrderBy(S, column, ascending) ==
    {s \in Orderings(S) :
        \A i \in 1..(Cardinality(S) - 1) :
            IF ascending THEN s[i][column] <= s[i + 1][column]
                         ELSE s[i][column] >= s[i + 1][column]}

\* (variant: the error is wrapped in a new one before it is thrown)
SettleWrapped(op, table, arg, error, data) ==
    [op |-> op, table |-> table, arg |-> arg, requests |-> 1, error |-> error,
     thrown |-> IF error = "none" THEN "none" ELSE "Error",
     data |-> IF error = "none" THEN data ELSE <<>>]

\* const { data, error } = await ...; if (error) throw error; return data
Settle(op, table, arg, error, data) ==
    [op |-> op, table |-> table, arg |-> arg, requests |-> 1, error |-> error,
     thrown |-> error,
     data |-> IF error = "none" THEN data ELSE <<>>]

\* (variant: getByPropertyId without .eq('property_id', propertyId))
ServiceGetAll(table, propertyId) ==
    /\ tick < FirstId + MaxOps
    /\ \E error \in Errors("none") :
       \E data \in OrderBy(db[table],
                           IF table = "rooms" THEN "number" ELSE "created_at",
                           table = "rooms") :
          reply' = Settle("getByPropertyId", table, propertyId, error, data)
    /\ tick' = tick + 1
    /\ UNCHANGED <<userVars, statVars, notifVars, db>>

\* roomService.getByPropertyId: .eq('property_id', propertyId).order('number');
\* tenantService, paymentService and maintenanceService:
\* .eq('property_id', propertyId).order('created_at', { ascending: false })
ServiceGetByPropertyId(table, propertyId) ==
    /\ tick < FirstId + MaxOps
    /\ \E error \in Errors("none") :
       \E data \in OrderBy({r \in db[table] : r.property_id = propertyId},
                           IF table = "rooms" THEN "number" ELSE "created_at",
                           table = "rooms") :
          reply' = Settle("getByPropertyId", table, propertyId, error, data)
    /\ tick' = tick + 1
    /\ UNCHANGED <<userVars, statVars, notifVars, db>>

\* insert([row]).select().single(); propertyService.create adds owner_id, the
\* user of the session. The store gives id and timestamps, and rejects a row
\* whose property does not exist.
ServiceCreate(table, property_id, number) ==
    /\ tick < FirstId + MaxOps
    /\ LET row == IF table = "properties" THEN Row(tick, 0, session, 0)
                  ELSE Row(tick, property_id, 0, number)
           rejection == IF table \in PerProperty /\ ~PropertyExists(property_id)
                        THEN "23503" ELSE "none"
       IN  \E error \in Errors(rejection) :
              /\ db' = IF error = "none"
                       THEN [db EXCEPT ![table] = @ \cup {row}] ELSE db
              /\ reply' = Settle("create", table, 0, error, <<row>>)
    /\ tick' = tick + 1
    /\ UNCHANGED <<userVars, statVars, notifVars>>

\* the Partial<Entity> arguments of update
Fields(table) ==
    {[v |-> 1]}
    \cup (IF table \in PerProperty
          THEN {[property_id |-> 2], [property_id |-> 9]} ELSE {})
    \cup (IF table = "rooms" THEN {[number |-> 3]} ELSE {})

\* { ...entity, updated_at: new Date().toISOString() } written over a row
Merge(row, fields, now) ==
    [c \in DOMAIN row |->
        IF c = "updated_at" THEN now
        ELSE IF c \in DOMAIN fields THEN fields[c] ELSE row[c]]

\* update({ ...entity, updated_at }).eq('id', id).select().single(): single()
\* answers PGRST116 when no row has the id; the store rejects a property
\* reference that names no property
ServiceUpdate(table, id, fields) ==
    /\ tick < FirstId + MaxOps
    /\ LET matching == {r \in db[table] : r.id = id}
           updated == {Merge(r, fields, tick) : r \in matching}
           rejection ==
               IF matching = {} THEN "PGRST116"
               ELSE IF "property_id" \in DOMAIN fields
                       /\ ~PropertyExists(fields.property_id)
                    THEN "23503" ELSE "none"
       IN  \E error \in Errors(rejection) :
              /\ db' = IF error = "none"
                       THEN [db EXCEPT ![table] = (@ \ matching) \cup updated]
                       ELSE db
              /\ reply' = Settle("update", table, id, error,
                                 IF error = "none" THEN <<CHOOSE r \in updated : TRUE>>
                                 ELSE <<>>)
    /\ tick' = tick + 1
    /\ UNCHANGED <<userVars, statVars, notifVars>>

\* (variant: delete without .eq('id', id))
ServiceDeleteEveryRow(table, id) ==
    /\ tick < FirstId + MaxOps
    /\ \E error \in Errors("none") :
          /\ db' = IF error = "none" THEN [db EXCEPT ![table] = {}] ELSE db
          /\ reply' = Settle("delete", table, id, error, <<>>)
    /\ tick' = tick + 1
    /\ UNCHANGED <<userVars, statVars, notifVars>>

\* delete().eq('id', id): no row with the id is no error; the store rejects
\* the delete of a row that other rows refer to
ServiceDelete(table, id) ==
    /\ tick < FirstId + MaxOps
    /\ LET rejection == IF (\E r \in db[table] : r.id = id) /\ Referenced(table, id)
                        THEN "23503" ELSE "none"
       IN  \E error \in Errors(rejection) :
              /\ db' = IF error = "none"
                       THEN [db EXCEPT ![table] = {r \in @ : r.id # id}] ELSE db
              /\ reply' = Settle("delete", table, id, error, <<>>)
    /\ tick' = tick + 1
    /\ UNCHANGED <<userVars, statVars, notifVars>>

\* the ids a caller passes: the seeded rows of the table, the first row that
\* is created, and a row of another table
IdsFor(table) ==
    {r.id : r \in SeedDb[table]}
    \cup {FirstId, IF table = "properties" THEN 3 ELSE 1}

NextRepositories ==
    \/ \E table \in PerProperty, propertyId \in {1, 2, 9} :
          ServiceGetByPropertyId(table, propertyId)
    \/ \E table \in Tables :
       \E property_id \in (IF table = "properties" THEN {0} ELSE {1, 9}) :
       \E number \in (IF table = "rooms" THEN {1, 3} ELSE {0}) :
          ServiceCreate(table, property_id, number)
    \/ \E table \in Tables : \E id \in IdsFor(table) : \E fields \in Fields(table) :
          ServiceUpdate(table, id, fields)
    \/ \E table \in Tables : \E id \in IdsFor(table) :
          ServiceDelete(table, id)

InitRepositories == Init /\ bo[2].role = "admin" /\ bo[2].status = "active"

SpecRepositories == InitRepositories /\ [][NextRepositories]_vars

(* --------------------------- notificationService ----------------------- *)
\* .or(`target_user_id.eq.${user.id},target_user_id.is.null`)
Visible(rows, user) ==
    {n \in rows : n.target_user_id = user \/ n.target_user_id = 0}

\* (variant: .order('created_at', { ascending: true }))
RECURSIVE OrderAscending(_)
OrderAscending(rows) ==
    IF rows = {} THEN <<>>
    ELSE LET first == CHOOSE n \in rows : \A m \in rows : n.created_at <= m.created_at
         IN  <<first>> \o OrderAscending(rows \ {first})

\* .order('created_at', { ascending: false })
RECURSIVE Order(_)
Order(rows) ==
    IF rows = {} THEN <<>>
    ELSE LET first == CHOOSE n \in rows : \A m \in rows : n.created_at >= m.created_at
         IN  <<first>> \o Order(rows \ {first})

\* getAll, for the user auth.getUser() returned
GetAll(user) == Order(Visible(notifications, user))

\* markAsRead(id): update({ status: 'read' }).eq('id', id)
MarkAsRead(rows, id) ==
    {IF n.id = id THEN [n EXCEPT !.status = "read"] ELSE n : n \in rows}

\* (variant: the update without the .or(...) filter on target_user_id)
MarkAllAsReadEveryUser(rows, user) ==
    {IF n.status = "unread" THEN [n EXCEPT !.status = "read"] ELSE n : n \in rows}

\* markAllAsRead, for the user auth.getUser() returned
MarkAllAsRead(rows, user) ==
    {IF n \in Visible(rows, user) /\ n.status = "unread"
        THEN [n EXCEPT !.status = "read"] ELSE n : n \in rows}

\* delete(id)
Delete(rows, id) == {n \in rows : n.id # id}

\* what a caller of create hands over: the targets, and possibly a status
\* of its own ("none" when the object has no such field)
Given == [target_user_id : TargetUsers, target_property_id : TargetProperties,
          status : {"none", "read"}]

\* (variant: { status: 'unread', ...notification })
InsertedStatusFirst(given, id) ==
    Notification(id, given.target_user_id, given.target_property_id,
                 IF given.status = "none" THEN "unread" ELSE given.status)

\* the row insert([{ ...notification, status: 'unread' }]) stores
Inserted(given, id) ==
    Notification(id, given.target_user_id, given.target_property_id, "unread")

\* the subscription's filter, applied to a changed row
Matches(n) ==
    provider.selectedProperty = 0 \/ n.target_property_id = provider.selectedProperty

\* the rows a write inserted or updated, as they are now, and the rows it
\* deleted, as they were
Changed(old, new) ==
    (new \ old) \cup {n \in old : \A m \in new : m.id # n.id}

\* the change events the store sends to the provider's channel for a write
Emit(changed) ==
    IF provider.mounted
    THEN events + Cardinality({n \in changed : Matches(n)})
    ELSE events

(* --------------------------- NotificationProvider ---------------------- *)
\* a call of loadNotifications that has just started; by tells which line
\* of the effect made it: "mount", "change" or "signedIn"
NewLoad(by) == [by |-> by, pc |-> "getUser", user |-> 0, data |-> <<>>]

\* sequence q without its i-th element
Without(q, i) == SubSeq(q, 1, i - 1) \o SubSeq(q, i + 1, Len(q))

\* the body of the effect after loadNotifications(): channel(...).on(...,
\* { filter }, ...).subscribe() and auth.onAuthStateChange(...). channels
\* holds the filter of every live change-feed subscription (0: undefined).
Subscribe(pr, p) ==
    [pr EXCEPT !.selectedProperty = p,
               !.channels = Append(@, p),
               !.authSubscriptions = @ + 1]

\* (variant: an effect that returns no cleanup)
CleanupNothing(pr) == pr

\* the cleanup the effect returned: it unsubscribes the two subscriptions
\* its own run made, the latest ones; unsubscribe counts from its call
Cleanup(pr) ==
    [pr EXCEPT !.channels = SubSeq(@, 1, Len(@) - 1),
               !.authSubscriptions = @ - 1]

\* the provider mounts, with notifications [] and the property selected at
\* that time: the effect calls loadNotifications and subscribes. (It mounts
\* again only when the calls of an earlier mount have returned.)
Mount ==
    /\ ~provider.mounted /\ sent < MaxRequests
    /\ loads = <<>> /\ ops = <<>>
    /\ \E p \in TargetProperties :
          provider' = Subscribe([provider EXCEPT !.mounted = TRUE], p)
    /\ loads' = Append(loads, NewLoad("mount"))
    /\ sent' = sent + 1
    /\ UNCHANGED <<userVars, statVars, repoVars, notifications, clock, session, ops, events>>

\* (variant: the channel callback reloads only when no reload is in flight)
DeliverChangeUnlessLoading ==
    /\ events > 0 /\ sent < MaxRequests
    /\ events' = events - 1
    /\ loads' = IF loads = <<>> THEN Append(loads, NewLoad("change")) ELSE loads
    /\ sent' = IF loads = <<>> THEN sent + 1 ELSE sent
    /\ UNCHANGED <<userVars, statVars, repoVars, notifications, clock, session, provider, ops>>

\* a change event reaches the channel: its callback calls loadNotifications
DeliverChange ==
    /\ events > 0 /\ sent < MaxRequests
    /\ events' = events - 1
    /\ loads' = Append(loads, NewLoad("change"))
    /\ sent' = sent + 1
    /\ UNCHANGED <<userVars, statVars, repoVars, notifications, clock, session, provider, ops>>

\* (variant: the SIGNED_OUT branch reloads instead of clearing)
SignOutReloads ==
    /\ session # 0 /\ sent < MaxRequests
    /\ session' = 0
    /\ loads' = IF provider.mounted THEN Append(loads, NewLoad("signedOut")) ELSE loads
    /\ sent' = IF provider.mounted THEN sent + 1 ELSE sent
    /\ UNCHANGED <<userVars, statVars, repoVars, notifications, clock, provider, ops, events>>

\* the user signs out: onAuthStateChange gets SIGNED_OUT
SignOut ==
    /\ session # 0
    /\ session' = 0
    /\ provider' = IF provider.mounted
                   THEN [provider EXCEPT !.notifications = <<>>] ELSE provider
    /\ UNCHANGED <<userVars, statVars, repoVars, notifications, clock, loads, ops, events, sent>>

\* the user signs in: onAuthStateChange gets SIGNED_IN
SignIn ==
    /\ session = 0 /\ sent < MaxRequests
    /\ session' = Caller
    /\ loads' = IF provider.mounted THEN Append(loads, NewLoad("signedIn")) ELSE loads
    /\ sent' = IF provider.mounted THEN sent + 1 ELSE sent
    /\ UNCHANGED <<userVars, statVars, repoVars, notifications, clock, provider, ops, events>>

\* getAll: auth.getUser(); without a user it throws and the catch logs
LoadGetUser(i) ==
    /\ loads[i].pc = "getUser"
    /\ loads' = IF session = 0 THEN Without(loads, i)
                ELSE [loads EXCEPT ![i].pc = "select", ![i].user = session]
    /\ UNCHANGED <<userVars, statVars, repoVars, notifications, clock, session, provider, ops, events, sent>>

\* getAll: the store runs the select
LoadSelect(i) ==
    /\ loads[i].pc = "select"
    /\ loads' = [loads EXCEPT ![i].pc = "response", ![i].data = GetAll(loads[i].user)]
    /\ UNCHANGED <<userVars, statVars, repoVars, notifications, clock, session, provider, ops, events, sent>>

\* (variant: the catch of loadNotifications clears the list)
LoadSelectFailsAndClears(i) ==
    /\ loads[i].pc = "select"
    /\ loads' = Without(loads, i)
    /\ provider' = [provider EXCEPT !.notifications = <<>>]
    /\ UNCHANGED <<userVars, statVars, repoVars, notifications, clock, session, ops, events, sent>>

\* getAll: the store answers the select with an error; getAll throws it and
\* the catch of loadNotifications logs
LoadSelectFails(i) ==
    /\ loads[i].pc = "select"
    /\ loads' = Without(loads, i)
    /\ UNCHANGED <<userVars, statVars, repoVars, notifications, clock, session, provider, ops, events, sent>>

\* the answer of the select arrives: setNotifications(data), which does
\* nothing once the provider has unmounted
LoadResponse(i) ==
    /\ loads[i].pc = "response"
    /\ provider' = IF provider.mounted
                   THEN [provider EXCEPT !.notifications = loads[i].data]
                   ELSE provider
    /\ loads' = Without(loads, i)
    /\ UNCHANGED <<userVars, statVars, repoVars, notifications, clock, session, ops, events, sent>>

\* a mutation of the provider that has just been called: closure is the
\* value of notifications its function was rendered with
NewOp(kind, id) ==
    [kind |-> kind, id |-> id, closure |-> provider.notifications,
     pc |-> IF kind = "markAllAsRead" THEN "getUser" ELSE "write",
     user |-> 0, row |-> Notification(0, 0, 0, "none")]

\* the ids of the notifications the provider shows
Shown == {provider.notifications[k].id : k \in DOMAIN provider.notifications}

CallMarkAsRead ==
    /\ provider.mounted /\ sent < MaxRequests
    /\ \E id \in Shown : ops' = Append(ops, NewOp("markAsRead", id))
    /\ sent' = sent + 1
    /\ UNCHANGED <<userVars, statVars, repoVars, notifications, clock, session, provider, loads, events>>

CallMarkAllAsRead ==
    /\ provider.mounted /\ sent < MaxRequests
    /\ ops' = Append(ops, NewOp("markAllAsRead", 0))
    /\ sent' = sent + 1
    /\ UNCHANGED <<userVars, statVars, repoVars, notifications, clock, session, provider, loads, events>>

CallDeleteNotification ==
    /\ provider.mounted /\ sent < MaxRequests
    /\ \E id \in Shown : ops' = Append(ops, NewOp("delete", id))
    /\ sent' = sent + 1
    /\ UNCHANGED <<userVars, statVars, repoVars, notifications, clock, session, provider, loads, events>>

CallCreateNotification ==
    /\ provider.mounted /\ sent < MaxRequests
    /\ ops' = Append(ops, NewOp("create", 0))
    /\ sent' = sent + 1
    /\ UNCHANGED <<userVars, statVars, repoVars, notifications, clock, session, provider, loads, events>>

\* markAllAsRead: auth.getUser(); without a user it throws and the catch logs
OpGetUser(i) ==
    /\ ops[i].pc = "getUser"
    /\ ops' = IF session = 0 THEN Without(ops, i)
              ELSE [ops EXCEPT ![i].pc = "write", ![i].user = session]
    /\ UNCHANGED <<userVars, statVars, repoVars, notifications, clock, session, provider, loads, events, sent>>

\* the table after the store has run the request of mutation o; given is
\* the argument of create
Written(o, given) ==
    CASE o.kind = "markAsRead" -> MarkAsRead(notifications, o.id)
      [] o.kind = "markAllAsRead" -> MarkAllAsRead(notifications, o.user)
      [] o.kind = "delete" -> Delete(notifications, o.id)
      [] o.kind = "create" -> notifications \cup {Inserted(given, clock)}

\* the store runs the request of a mutation, or rejects it: then the service
\* throws and the catch logs
OpWrite(i) ==
    /\ ops[i].pc = "write"
    /\ \/ /\ ops' = Without(ops, i)
          /\ UNCHANGED <<notifications, clock, events>>
       \/ \E given \in IF ops[i].kind = "create" THEN Given ELSE {CHOOSE g \in Given : TRUE} :
             /\ notifications' = Written(ops[i], given)
             /\ events' = Emit(Changed(notifications, notifications'))
             /\ clock' = IF ops[i].kind = "create" THEN clock + 1 ELSE clock
             /\ ops' = [ops EXCEPT ![i].pc = "response",
                                   ![i].row = IF ops[i].kind = "create"
                                              THEN Inserted(given, clock) ELSE @]
    /\ UNCHANGED <<userVars, statVars, repoVars, session, provider, loads, sent>>

\* the list a mutation hands to setNotifications once its request returned
Local(o) ==
    CASE o.kind = "markAsRead" ->
             [k \in DOMAIN o.closure |->
                 IF o.closure[k].id = o.id
                 THEN [o.closure[k] EXCEPT !.status = "read"] ELSE o.closure[k]]
      [] o.kind = "markAllAsRead" ->
             [k \in DOMAIN o.closure |-> [o.closure[k] EXCEPT !.status = "read"]]
      [] o.kind = "delete" -> SelectSeq(o.closure, LAMBDA n : n.id # o.id)
      [] o.kind = "create" -> <<o.row>> \o o.closure

\* the request of a mutation returns: setNotifications(...), which does
\* nothing once the provider has unmounted
OpResponse(i) ==
    /\ ops[i].pc = "response"
    /\ provider' = IF provider.mounted
                   THEN [provider EXCEPT !.notifications = Local(ops[i])]
                   ELSE provider
    /\ ops' = Without(ops, i)
    /\ UNCHANGED <<userVars, statVars, repoVars, notifications, clock, session, loads, events, sent>>

\* the backoffice page, in another session: handleCreateNotification
\* inserts { ...formData, status: 'unread' }, or the store rejects it
HandleCreateNotification ==
    /\ sent < MaxRequests
    /\ sent' = sent + 1
    /\ \/ UNCHANGED <<notifications, clock, events>>
       \/ \E given \in Given :
             /\ notifications' = notifications \cup {Inserted(given, clock)}
             /\ events' = Emit({Inserted(given, clock)})
             /\ clock' = clock + 1
    /\ UNCHANGED <<userVars, statVars, repoVars, session, provider, loads, ops>>

NextNotifications ==
    \/ Mount
    \/ DeliverChange
    \/ SignOut
    \/ SignIn
    \/ \E i \in DOMAIN loads : LoadGetUser(i)
    \/ \E i \in DOMAIN loads : LoadSelect(i)
    \/ \E i \in DOMAIN loads : LoadSelectFails(i)
    \/ \E i \in DOMAIN loads : LoadResponse(i)
    \/ CallMarkAsRead
    \/ CallMarkAllAsRead
    \/ CallDeleteNotification
    \/ CallCreateNotification
    \/ \E i \in DOMAIN ops : OpGetUser(i)
    \/ \E i \in DOMAIN ops : OpWrite(i)
    \/ \E i \in DOMAIN ops : OpResponse(i)
    \/ HandleCreateNotification

InitNotifications == Init /\ bo[2].role = "admin" /\ bo[2].status = "active"

SpecNotifications == InitNotifications /\ [][NextNotifications]_vars

\* useProperty() hands the provider another selectedProperty (another
\* object, also for the same property; not undefined again): React runs the
\* cleanup of the effect and then the effect. Events on their way to the
\* channel that was unsubscribed are dropped.
SelectProperty ==
    /\ provider.mounted /\ sent < MaxRequests
    /\ \E p \in TargetProperties :
          /\ p # 0 \/ provider.selectedProperty # 0
          /\ provider' = Subscribe(Cleanup(provider), p)
    /\ loads' = Append(loads, NewLoad("select"))
    /\ sent' = sent + 1
    /\ events' = 0
    /\ UNCHANGED <<userVars, statVars, repoVars, notifications, clock, session, ops>>

\* the provider unmounts: React runs the cleanup of the effect, and the
\* state of the component is gone
Unmount ==
    /\ provider.mounted
    /\ provider' = [Cleanup(provider) EXCEPT !.mounted = FALSE, !.notifications = <<>>]
    /\ events' = 0
    /\ UNCHANGED <<userVars, statVars, repoVars, notifications, clock, session, loads, ops, sent>>

\* the provider over its whole life: selections and unmount included
NextProvider ==
    \/ NextNotifications
    \/ SelectProperty
    \/ Unmount

SpecProvider == InitNotifications /\ [][NextProvider]_vars

(* ------------------------------- claims -------------------------------- *)
\* call i took a step
Stepped(i) == calls'[i] # calls[i]

\* the step left the identity store and backoffice_users as they were
StoresUnchanged == auth' = auth /\ bo' = bo /\ nextId' = nextId

\* the handler answered 400 with a message of the given kind
Refused(c, kind) == c.pc = "done" /\ c.resp = 400 /\ ErrorKind(c.msg) = kind

Done(c) == c.pc = "done"

\* C1: once a create call whose profile insert failed has returned, the
\* identity it created for the attempted email is gone from the identity store.
C1_RollbackLeavesNoIdentity ==
    \A i \in CallIds :
        (calls[i].kind = "create" /\ Done(calls[i]) /\ calls[i].failed = "insert")
            => calls[i].newId \notin DOMAIN auth

\* C2: a delete call that meets a target row with role superadmin ends in a
\* Forbidden failure, issues no deleteUser and leaves both stores unchanged.
C2_Step(i) ==
    LET c == calls[i]
        d == calls'[i]
    IN  (/\ c.kind = "delete"
         /\ c.pc \in {"selectTarget", "deleteUser"}
         /\ Stepped(i)
         /\ HasRow(c.target)
         /\ bo[c.target].role = "superadmin")
            => /\ Refused(d, "Forbidden")
               /\ "deleteUser" \notin d.ops
               /\ StoresUnchanged

C2_SuperadminTargetRefused == [][\A i \in CallIds : C2_Step(i)]_vars

\* a superadmin asked for the deletion of another superadmin and was refused
C2_Witness ==
    \E i \in CallIds :
        /\ calls[i].kind = "delete" /\ Done(calls[i])
        /\ calls[i].msg = MsgNoSuperDelete
        /\ calls[i].target # calls[i].user

\* C3: a delete call whose requested id is the caller's own id ends in a
\* Forbidden failure without touching the stores, and the caller's identity
\* and profile row are still there after it.
C3_Step(i) ==
    LET c == calls[i]
        d == calls'[i]
    IN  (/\ c.kind = "delete"
         /\ c.user # 0
         /\ c.target = c.user
         /\ Stepped(i))
            => /\ Refused(d, "Forbidden")
               /\ "deleteUser" \notin d.ops
               /\ StoresUnchanged

C3_SelfKept ==
    \A i \in CallIds :
        (/\ calls[i].kind = "delete" /\ Done(calls[i])
         /\ calls[i].user # 0 /\ calls[i].target = calls[i].user)
            => /\ calls[i].resp = 400
               /\ calls[i].user \in DOMAIN auth
               /\ HasRow(calls[i].user)

C3_SelfDeleteRefused == []C3_SelfKept /\ [][\A i \in CallIds : C3_Step(i)]_vars

\* a superadmin asked for its own deletion and was refused
C3_Witness ==
    \E i \in CallIds :
        /\ calls[i].kind = "delete" /\ Done(calls[i])
        /\ calls[i].user # 0 /\ calls[i].target = calls[i].user
        /\ calls[i].resp = 400

\* C4: a call of either function whose caller is not an active superadmin
\* ends in a Forbidden failure at the privilege check with both stores
\* unchanged, and only calls of active superadmins get beyond that check.
C4_Step(i) ==
    LET c == calls[i]
        d == calls'[i]
    IN  (/\ c.pc = "selectCaller"
         /\ Stepped(i)
         /\ ~IsActiveSuperadmin(c.user))
            => /\ Refused(d, "Forbidden")
               /\ d.ops \subseteq {"getUser", "selectCaller"}
               /\ StoresUnchanged

C4_PastCheck ==
    \A i \in CallIds :
        (calls[i].ops \cap {"readBody", "createUser", "insert", "selectTarget",
                            "deleteUser"} # {})
            => IsActiveSuperadmin(calls[i].user)

C4_OnlyActiveSuperadmin == []C4_PastCheck /\ [][\A i \in CallIds : C4_Step(i)]_vars

\* a superadmin whose status is inactive was refused by each function
C4_Witness ==
    \E i, j \in CallIds :
        /\ calls[i].kind = "create" /\ calls[j].kind = "delete"
        /\ \A k \in {i, j} :
              /\ calls[k].failed = "selectCaller"
              /\ HasRow(calls[k].user)
              /\ bo[calls[k].user].role = "superadmin"
              /\ bo[calls[k].user].status = "inactive"

\* C5: a request whose credential is missing or resolves to no identity ends
\* in an Unauthorized failure at the first step: no row lookup, no body read,
\* no store write.
C5_Step(i) ==
    LET c == calls[i]
        d == calls'[i]
    IN  (/\ c.pc = "getUser"
         /\ Stepped(i)
         /\ d.token \notin DOMAIN auth)
            => /\ Refused(d, "Unauthorized")
               /\ d.ops \subseteq {"getUser"}
               /\ d.user = 0
               /\ StoresUnchanged

C5_UnauthorizedFirst == [][\A i \in CallIds : C5_Step(i)]_vars

\* a request came with the token of an identity that had been deleted
C5_Witness ==
    \E j \in CallIds :
        /\ Done(calls[j]) /\ calls[j].failed = "getUser"
        /\ calls[j].token \in SeedIds
        /\ calls[j].ops = {"getUser"}

\* C6: a finished call answered 200 exactly when no step failed, and then it
\* ran every step of its function and carries the success message; every
\* other finished call answered 400 with a message.
CreateSteps == {"getUser", "selectCaller", "readBody", "createUser", "insert"}
DeleteSteps == {"getUser", "selectCaller", "readBody", "selectTarget", "deleteUser"}

C6_StatusTellsOutcome ==
    \A i \in CallIds :
        Done(calls[i]) =>
            /\ calls[i].resp \in {200, 400}
            /\ calls[i].msg # ""
            /\ (calls[i].resp = 200) <=> (calls[i].failed = "none")
            /\ calls[i].resp = 200 =>
                  IF calls[i].kind = "create"
                  THEN calls[i].ops = CreateSteps /\ calls[i].msg = MsgCreated
                  ELSE calls[i].ops = DeleteSteps /\ calls[i].msg = MsgDeleted
            /\ calls[i].resp = 400 => ErrorKind(calls[i].msg) # "none"

\* one creation succeeded and another call failed at its profile insert
C6_Witness ==
    \E i, j \in CallIds :
        /\ calls[i].kind = "create" /\ calls[i].resp = 200
        /\ Done(calls[j]) /\ calls[j].failed = "insert" /\ calls[j].resp = 400

\* C7: some superadmin always has both its profile row and its identity.
C7_SuperadminRemains ==
    \E id \in DOMAIN bo \cap DOMAIN auth : bo[id].role = "superadmin"

\* one deletion went through and the deletion of a superadmin was refused
C7_Witness ==
    \E i, j \in CallIds :
        /\ calls[i].kind = "delete" /\ calls[i].resp = 200
        /\ calls[j].kind = "delete" /\ calls[j].msg = MsgNoSuperDelete

\* C8: when the identity store rejects the new identity (as it does for a
\* registered address) the create call ends in CreateFailed, attempts no
\* profile insert, deletes no identity, and leaves both stores unchanged.
C8_Step(i) ==
    LET c == calls[i]
        d == calls'[i]
    IN  (/\ c.kind = "create"
         /\ c.pc = "createUser"
         /\ Stepped(i)
         /\ (EmailRegistered(d.email) \/ d.failed = "createUser"))
            => /\ Refused(d, "CreateFailed")
               /\ d.ops \cap {"insert", "deleteUser"} = {}
               /\ StoresUnchanged

C8_RejectedIdentity == [][\A i \in CallIds : C8_Step(i)]_vars

\* a creation for a registered address was rejected by the identity store
C8_Witness ==
    \E i \in CallIds :
        /\ calls[i].kind = "create" /\ Done(calls[i])
        /\ calls[i].failed = "createUser"
        /\ EmailRegistered(calls[i].email)

\* C9: no two rows of backoffice_users carry the same email.
C9_EmailsUnique ==
    \A i, j \in DOMAIN bo : bo[i].email = bo[j].email => i = j

\* the page inserted a row for an address and the edge function, asked for
\* the same address, got as far as its own insert
C9_Witness ==
    \E j \in DOMAIN forms, i \in CallIds :
        /\ forms[j].pc = "inserted"
        /\ calls[i].kind = "create" /\ "insert" \in calls[i].ops
        /\ calls[i].email = forms[j].email
        /\ Done(calls[i])

\* C10: a delete call for an id without a backoffice_users row ends in a
\* NotFound failure and deletes no identity.
C10_Step(i) ==
    LET c == calls[i]
        d == calls'[i]
    IN  (/\ c.kind = "delete"
         /\ c.pc = "selectTarget"
         /\ Stepped(i)
         /\ ~HasRow(c.target))
            => /\ Refused(d, "NotFound")
               /\ "deleteUser" \notin d.ops
               /\ StoresUnchanged

C10_MissingTargetNotFound == [][\A i \in CallIds : C10_Step(i)]_vars

\* the id named an identity that has no profile row
C10_Witness ==
    \E i \in CallIds :
        /\ calls[i].kind = "delete" /\ Done(calls[i])
        /\ calls[i].msg = MsgNotFound
        /\ calls[i].target \in DOMAIN auth

\* C11: a delete call never reports success for an identity that is not in
\* the identity store: the step that finds it absent answers 400 and changes
\* nothing, so of two calls for one id at most one answers 200.
C11_Step(i) ==
    LET c == calls[i]
        d == calls'[i]
    IN  (/\ c.kind = "delete"
         /\ c.pc \in {"selectTarget", "deleteUser"}
         /\ Stepped(i)
         /\ c.target \notin DOMAIN auth)
            => /\ d.resp # 200
               /\ Done(d) => d.resp = 400
               /\ c.pc = "deleteUser" => Refused(d, "DeleteFailed")
               /\ StoresUnchanged

C11_OneSuccessPerId ==
    \A i, j \in CallIds :
        (/\ i # j
         /\ calls[i].kind = "delete" /\ calls[j].kind = "delete"
         /\ calls[i].target = calls[j].target
         /\ calls[i].resp = 200)
            => calls[j].resp # 200

C11_AbsentIdentityFails ==
    []C11_OneSuccessPerId /\ [][\A i \in CallIds : C11_Step(i)]_vars

\* two calls asked for the deletion of one id: one went through, the other
\* found the identity gone and answered 400
C11_Witness ==
    \E i, j \in CallIds :
        /\ calls[i].kind = "delete" /\ calls[i].resp = 200
        /\ calls[j].kind = "delete" /\ calls[j].target = calls[i].target
        /\ calls[j].resp = 400
        /\ calls[j].failed \in {"selectTarget", "deleteUser"}

\* C12: a step of a delete call issues no request but those of its function,
\* removes no identity other than the target's, and the only row that can
\* leave backoffice_users is the target's, together with its identity.
C12_Step(i) ==
    LET c == calls[i]
        d == calls'[i]
    IN  (c.kind = "delete" /\ Stepped(i))
            => /\ d.ops \subseteq DeleteSteps
               /\ auth' \in {auth, Remove(auth, d.target)}
               /\ bo' \in {bo, CascadeProfile(bo, d.target)}
               /\ bo' # bo => auth' # auth
               /\ nextId' = nextId

C12_OnlyTargetIdentity == [][\A i \in CallIds : C12_Step(i)]_vars

\* a deletion went through: the target is gone, every other seed is there
C12_Witness ==
    \E i \in CallIds :
        /\ calls[i].kind = "delete" /\ calls[i].resp = 200
        /\ calls[i].target \notin DOMAIN auth
        /\ ~HasRow(calls[i].target)
        /\ SeedIds \ {calls[i].target} \subseteq DOMAIN auth
        /\ HasRow(1)

(* ---- Properties page statistics ---- *)
\* the rows of a table that belong to property p, by their place in the table
Of(table, p) == {i \in DOMAIN table : table[i].property_id = p}

RECURSIVE SumAmount(_)
SumAmount(S) ==
    IF S = {} THEN 0
    ELSE LET i == CHOOSE x \in S : TRUE
         IN  payments[i].amount + SumAmount(S \ {i})

\* the fraction r is the rate of occupied rooms out of total, in percent
IsRate(r, occupied, total) ==
    /\ r.den > 0
    /\ total = 0 => r.num = 0
    /\ total > 0 => r.num * total = occupied * 100 * r.den
    /\ 0 <= r.num /\ r.num <= 100 * r.den

\* C19: the rooms step of loadProperties computes, for the property it is at,
\* the rate 0 when the property has no rooms and occupied/total x 100
\* otherwise, occupied being its rooms of status occupied; every rate the
\* page holds is a number in [0,100] that fits the counts stored with it.
C19_Step ==
    (load.pc = "rooms" /\ load'.pc = "tenants")
        => LET mine == Of(rooms, Properties[load.k])
               occupied == {i \in mine : rooms[i].status = "occupied"}
           IN  /\ load'.totalRooms = Cardinality(mine)
               /\ load'.occupiedRooms = Cardinality(occupied)
               /\ IsRate(load'.occupancyRate, Cardinality(occupied), Cardinality(mine))

C19_Stored ==
    \A p \in DOMAIN propertyStats :
        IsRate(propertyStats[p].occupancy_rate,
               propertyStats[p].occupied_rooms, propertyStats[p].total_rooms)

C19_OccupancyRate == []C19_Stored /\ [][C19_Step]_vars

\* the page shows 2 of 3 rooms occupied for one property and rate 0 for the
\* other, which has no rooms
C19_Witness ==
    \E p, q \in DOMAIN propertyStats :
        /\ propertyStats[p].total_rooms = 3
        /\ propertyStats[p].occupied_rooms = 2
        /\ propertyStats[p].occupancy_rate = [num |-> 200, den |-> 3]
        /\ propertyStats[q].total_rooms = 0
        /\ propertyStats[q].occupancy_rate.num = 0

\* C20: for the property it is at, loadProperties counts exactly its active
\* tenants, sums amount over exactly its paid payments and over exactly its
\* pending or overdue payments, and stores these numbers under that property.
C20_Step ==
    LET p == Properties[load.k]
    IN  /\ (load.pc = "tenants" /\ load'.pc = "paid")
            => load'.tenantsCount =
                   Cardinality({i \in Of(tenants, p) : tenants[i].status = "active"})
        /\ (load.pc = "paid" /\ load'.pc = "pending")
            => load'.totalRevenue =
                   SumAmount({i \in Of(payments, p) : payments[i].status = "paid"})
        /\ (load.pc = "pending" /\ load'.pc # "pending")
            => /\ p \in DOMAIN load'.stats
               /\ load'.stats[p].pending_payments =
                      SumAmount({i \in Of(payments, p) :
                                    payments[i].status \in {"pending", "overdue"}})
               /\ load'.stats[p].total_revenue = load.totalRevenue
               /\ load'.stats[p].total_tenants = load.tenantsCount
               /\ \A q \in DOMAIN load.stats \ {p} : load'.stats[q] = load.stats[q]

C20_SumsOfOwnRows == [][C20_Step]_vars

\* one property shows revenue 500 and pending balance 300 while the other
\* property shows the revenue 750 of its own paid payment
C20_Witness ==
    \E p, q \in DOMAIN propertyStats :
        /\ p # q
        /\ propertyStats[p].total_revenue = 500
        /\ propertyStats[p].pending_payments = 300
        /\ propertyStats[q].total_revenue = 750
        /\ propertyStats[q].pending_payments = 0

(* ---- notifications ---- *)
\* mutation i of the provider had its request run by the store in this step
Wrote(i) ==
    /\ i \in DOMAIN ops /\ Len(ops') = Len(ops)
    /\ ops[i].pc = "write" /\ ops'[i].pc = "response"

\* C13: when the store runs the update of markAllAsRead, every unread row
\* whose target is the caller or nobody becomes read, and every other row,
\* those of another user and those already read, stays as it was.
C13_Step(i) ==
    (Wrote(i) /\ ops[i].kind = "markAllAsRead")
        => /\ ops[i].user = Caller
           /\ Cardinality(notifications') = Cardinality(notifications)
           /\ \A n \in notifications :
                 IF n.target_user_id \in {0, Caller} /\ n.status = "unread"
                 THEN [n EXCEPT !.status = "read"] \in notifications'
                 ELSE n \in notifications'

C13_MarkAllRead == [][\A i \in DOMAIN ops : C13_Step(i)]_vars

\* a markAllAsRead has run: a row of the caller and a broadcast inserted
\* after the start are read, the row of the other user is still unread
C13_Witness ==
    /\ \E i \in DOMAIN ops : ops[i].kind = "markAllAsRead" /\ ops[i].pc = "response"
    /\ Notification(1, Caller, 1, "read") \in notifications
    /\ Notification(2, OtherUser, 0, "unread") \in notifications
    /\ Notification(3, 0, 0, "read") \in notifications
    /\ \E n \in notifications :
          n.id > 3 /\ n.target_user_id = 0 /\ n.status = "read"

\* call i of loadNotifications had its select run by the store in this step
Selected(i) ==
    /\ i \in DOMAIN loads /\ Len(loads') = Len(loads)
    /\ loads[i].pc = "select" /\ loads'[i].pc = "response"

\* C14: what getAll returns holds every row of the table whose target is the
\* caller or nobody, each once, and no other row, the newest first; this is
\* the list loadNotifications hands to setNotifications.
C14_Step(i) ==
    LET data == loads'[i].data
    IN  /\ Selected(i)
            => /\ loads[i].user = Caller
               /\ {data[k] : k \in DOMAIN data} =
                      {n \in notifications : n.target_user_id \in {0, Caller}}
               /\ \A j, k \in DOMAIN data :
                      j < k => data[j].created_at > data[k].created_at
        /\ (i \in DOMAIN loads /\ loads[i].pc = "response" /\ Len(loads') < Len(loads)
                /\ provider' # provider)
            => \E k \in DOMAIN loads :
                  /\ loads[k].pc = "response"
                  /\ provider'.notifications = loads[k].data

C14_ListVisibleNewestFirst == [][\A i \in DOMAIN loads : C14_Step(i)]_vars

\* the provider shows the two seeded rows the caller may see, the later one
\* first, while the table holds a row of another user
C14_Witness ==
    /\ Len(provider.notifications) >= 2
    /\ provider.notifications[1].created_at > provider.notifications[2].created_at
    /\ \E n \in notifications : n.target_user_id = OtherUser
    /\ \A k \in DOMAIN provider.notifications :
          provider.notifications[k].target_user_id \in {0, Caller}
    /\ loads = <<>> /\ ops = <<>>

\* C15: every row that enters the table has status unread, and the row the
\* service's create returns, which the provider puts first in its list, is
\* the row the table holds.
C15_Step ==
    /\ \A n \in notifications' :
          (\A m \in notifications : m.id # n.id) => n.status = "unread"
    /\ \A i \in DOMAIN ops :
          /\ (Wrote(i) /\ ops[i].kind = "create")
                => /\ notifications' = notifications \cup {ops'[i].row}
                   /\ ops'[i].row \notin notifications
          /\ (Len(ops') < Len(ops) /\ provider' # provider
                /\ ops[i].kind = "create" /\ ops[i].pc = "response"
                /\ \A j \in DOMAIN ops : j # i => ops[j].pc # "response")
                => provider'.notifications = <<ops[i].row>> \o ops[i].closure

C15_CreatedUnread == [][C15_Step]_vars

\* the provider's create has returned a row for another user; the table
\* holds it, unread, next to an unread row the backoffice page inserted
C15_Witness ==
    /\ \E i \in DOMAIN ops :
          /\ ops[i].kind = "create" /\ ops[i].pc = "response"
          /\ ops[i].row \in notifications
          /\ ops[i].row.status = "unread"
          /\ ops[i].row.target_user_id = OtherUser
    /\ Cardinality(notifications) = 5

\* the row of the table with the given id, as a set of at most one row
RowOf(rows, id) == {n \in rows : n.id = id}

\* C16: while the provider is mounted, a write to the table sends it one
\* event for every row the write changed that passes the subscription's
\* filter (any row without a selected property, the rows of the selected
\* property with one); every event that arrives starts a call of
\* loadNotifications, and so does a sign-in.
C16_Step ==
    LET ids == {n.id : n \in notifications \cup notifications'}
        changed == {id \in ids : RowOf(notifications, id) # RowOf(notifications', id)}
        passing == {id \in changed :
                       \E n \in RowOf(notifications \cup notifications', id) :
                           provider.selectedProperty \in {0, n.target_property_id}}
    IN  /\ notifications' # notifications
            => events' = IF provider.mounted
                         THEN events + Cardinality(passing) ELSE events
        /\ events' < events
            => /\ provider.mounted
               /\ events' = events - 1
               /\ loads' = Append(loads, NewLoad("change"))
        /\ (session = 0 /\ session' # 0 /\ provider.mounted)
            => loads' = Append(loads, NewLoad("signedIn"))

C16_EventsReload == [][C16_Step]_vars

\* with property 1 selected, a row of property 1 was inserted and its event
\* has started a reload
C16_Witness ==
    /\ provider.mounted /\ provider.selectedProperty = 1
    /\ \E n \in notifications : n.id > 3 /\ n.target_property_id = 1
    /\ \E i \in DOMAIN loads : loads[i].by = "change"
    /\ events = 0

\* C17: with the provider mounted without a selected property (so that every
\* change of the table reaches it as an event) and a user signed in, once no
\* reload and no mutation is in flight and no event is on its way, the
\* provider's list is the list of the rows of the table the user may see.
C17_NoDivergence ==
    (/\ provider.mounted /\ provider.selectedProperty = 0 /\ session # 0
     /\ loads = <<>> /\ ops = <<>> /\ events = 0)
        => provider.notifications = GetAll(session)

\* C18: the step in which the user signs out empties the list of a mounted
\* provider; it starts no reload, sends no request and reads no table.
C18_Step ==
    (session # 0 /\ session' = 0)
        => /\ provider.mounted => provider'.notifications = <<>>
           /\ loads' = loads /\ ops' = ops
           /\ sent' = sent /\ events' = events
           /\ notifications' = notifications

C18_SignOutClears == [][C18_Step]_vars

\* the user has signed out while a mutation called with a list of rows was
\* still in flight: the provider's list is empty
C18_Witness ==
    /\ session = 0 /\ provider.mounted
    /\ provider.notifications = <<>>
    /\ \E i \in DOMAIN ops : ops[i].closure # <<>>


\* C21 (refuted). When a read of the statistics loop fails for a property, the
\* failure is reported: once the load has ended after a failed read, the page's
\* error is set.
C21_FailureReported ==
    (load.pc = "done" /\ load.failed # {}) => load.error


(* ---- entity repositories ---- *)
\* the rows of seq, as a set
Range(seq) == {seq[i] : i \in DOMAIN seq}

\* this step is a call of a repository
Called == tick' # tick

\* C22. getByPropertyId(propertyId) of the room, tenant, payment and
\* maintenance-request repositories returns exactly the rows of the table
\* whose property_id is propertyId, each once: rooms by ascending number, the
\* others newest first.
C22_GetByProperty ==
    [][(Called /\ reply'.op = "getByPropertyId" /\ reply'.thrown = "none")
        => LET data == reply'.data
               mine == {r \in db[reply'.table] : r.property_id = reply'.arg}
           IN  /\ Range(data) = mine
               /\ Len(data) = Cardinality(mine)
               /\ \A i, j \in DOMAIN data :
                     i < j => IF reply'.table = "rooms"
                              THEN data[i].number <= data[j].number
                              ELSE data[i].created_at > data[j].created_at]_vars

\* rooms 3 and 4 of property 1 come by number, tenants 7 and 6 newest first,
\* and the rows of property 2 are left out
C22_Witness ==
    /\ reply.op = "getByPropertyId" /\ reply.arg = 1 /\ reply.thrown = "none"
    /\ \/ reply.table = "rooms" /\ Len(reply.data) = 2
          /\ reply.data[1].id = 3 /\ reply.data[2].id = 4
       \/ reply.table = "tenants" /\ Len(reply.data) = 2
          /\ reply.data[1].id = 7 /\ reply.data[2].id = 6

\* C23. Every call of a repository sends one request; when the store rejects
\* it, the call throws the store's error as it is and returns nothing.
C23_ThrowsStoreError ==
    [][Called
        => /\ reply'.requests = 1
           /\ reply'.error # "none"
                 => reply'.thrown = reply'.error /\ reply'.data = <<>>
           /\ reply'.error = "none" => reply'.thrown = "none"]_vars

\* a create that names no property, an update of no row and a delete of a
\* row in use are each thrown as the store answered them
C23_Witness ==
    /\ reply.requests = 1 /\ reply.data = <<>>
    /\ \/ reply.op = "create" /\ reply.thrown = "23503"
       \/ reply.op = "update" /\ reply.thrown = "PGRST116"
       \/ reply.op = "delete" /\ reply.thrown = "FetchError"

\* the rows of table t other than the row id of table
Others(rows, t, table, id) == {r \in rows : ~(t = table /\ r.id = id)}

\* C24. update(id, fields) and delete(id) of a repository change or remove
\* only the row with that id in the repository's own table; every other row
\* of every table stays as it is.
C24_OnlyTheRow ==
    [][(Called /\ reply'.op \in {"update", "delete"})
        => \A t \in Tables :
              Others(db'[t], t, reply'.table, reply'.arg)
                  = Others(db[t], t, reply'.table, reply'.arg)]_vars

\* tenant 7 has been deleted and nothing else has changed; or an update has
\* moved room 4 to property 2 and nothing else has changed
C24_Witness ==
    /\ reply.thrown = "none"
    /\ \/ /\ reply.op = "delete" /\ reply.table = "tenants" /\ reply.arg = 7
          /\ db = [SeedDb EXCEPT !["tenants"] = {Row(6, 1, 3, 0)}]
       \/ /\ reply.op = "update" /\ reply.table = "rooms" /\ reply.arg = 4
          /\ \E r \in db["rooms"] : r.id = 4 /\ r.property_id = 2
          /\ \A t \in Tables :
                Others(db[t], t, "rooms", 4) = Others(SeedDb[t], t, "rooms", 4)


(* ---- lifecycle, with role updates in between ---- *)
\* call i deletes the identity of its target in this step
DeletesIdentity(i) ==
    /\ calls[i].kind = "delete" /\ calls[i].pc = "deleteUser"
    /\ Stepped(i)
    /\ calls[i].target \in DOMAIN auth
    /\ calls[i].target \notin DOMAIN auth'

\* C25 (refuted). A delete call never removes the identity of a user whose
\* stored role is superadmin when the identity is removed, and never removes
\* one for a caller who is no active superadmin by then, whatever role and
\* status updates happen while the call is under way.
C25_ChecksHoldAtDeletion ==
    [][\A i \in CallIds :
         DeletesIdentity(i)
            => /\ ~(HasRow(calls[i].target) /\ bo[calls[i].target].role = "superadmin")
               /\ IsActiveSuperadmin(calls[i].user)]_vars


\* C26 (refuted). Once every create and delete call has returned, an identity
\* that a create call made exists exactly if backoffice_users has a row with
\* its id.
C26_IdentityIffRow ==
    (\A i \in CallIds : Done(calls[i]))
        => \A i \in CallIds :
              (calls[i].kind = "create" /\ calls[i].newId # 0)
                  => (calls[i].newId \in DOMAIN auth <=> HasRow(calls[i].newId))


(* ---- the provider under overlapping calls, selections and failures ---- *)
\* C27 (refuted). While nobody is signed in, the answer of a reload that
\* arrives at the mounted provider leaves its list empty.
C27_StaysEmptyAfterSignOut ==
    [][\A i \in DOMAIN loads :
         (/\ session = 0 /\ session' = 0 /\ provider.mounted
          /\ loads[i].pc = "response" /\ loads' = Without(loads, i))
            => provider'.notifications = <<>>]_vars

\* list shows what mutation o did
Reflects(o, list) ==
    CASE o.kind = "markAsRead" ->
             \A k \in DOMAIN list : list[k].id = o.id => list[k].status = "read"
      [] o.kind = "markAllAsRead" ->
             \A k \in DOMAIN list : list[k].status = "read"
      [] o.kind = "delete" -> \A k \in DOMAIN list : list[k].id # o.id
      [] o.kind = "create" -> \E k \in DOMAIN list : list[k] = o.row

\* C28 (refuted). When the request of mutation j returns while mutation i,
\* whose request the store has run too, has not yet returned, the list that
\* i is going to set still shows what j did.
C28_BothReflected ==
    [][\A i, j \in DOMAIN ops :
         (/\ i # j /\ provider.mounted
          /\ ops[j].pc = "response" /\ ops[i].pc = "response"
          /\ ops' = Without(ops, j))
            => Reflects(ops[j], Local(ops[i]))]_vars

\* C29. The provider holds at most one change-feed subscription and one
\* auth subscription: while it is mounted exactly one of each, the
\* change-feed one with the filter of the selected property (none when no
\* property is selected), and none once it has unmounted.
C29_OneLiveSubscription ==
    /\ Len(provider.channels) <= 1
    /\ provider.authSubscriptions <= 1
    /\ provider.mounted
          => /\ provider.channels = <<provider.selectedProperty>>
             /\ provider.authSubscriptions = 1
    /\ ~provider.mounted
          => /\ provider.channels = <<>>
             /\ provider.authSubscriptions = 0

\* the selection has gone from property 1 to none: the reload of the new
\* run of the effect is in flight and the one subscription has no filter
C29_Witness ==
    /\ provider.mounted /\ provider.selectedProperty = 0
    /\ provider.channels = <<0>> /\ provider.authSubscriptions = 1
    /\ \E i \in DOMAIN loads : loads[i].by = "select"

\* C30. A reload that ends without an answer of the select (no user, or an
\* error of the store), and a mutation that ends before its request has
\* succeeded, leave the provider's list as it was.
C30_FailureKeepsList ==
    [][/\ \A i \in DOMAIN loads :
            (loads[i].pc # "response" /\ loads' = Without(loads, i))
               => provider'.notifications = provider.notifications
       /\ \A i \in DOMAIN ops :
            (ops[i].pc # "response" /\ ops' = Without(ops, i))
               => provider'.notifications = provider.notifications]_vars

\* the only reload so far, the one of the mount, has ended for a signed-in
\* user who may see rows, and the list is still the empty one of the mount:
\* the select failed
C30_Witness ==
    /\ provider.mounted /\ sent = 1 /\ loads = <<>>
    /\ session = Caller /\ GetAll(Caller) # <<>>
    /\ provider.notifications = <<>>

====
